---- MODULE Spec2Model ----
(***************************************************************************)
(* Model of helper/pattern.py: the lattice pattern generator               *)
(* (create_pattern), the six motif builders and the name-indexed selector  *)
(* (generate_pattern).  One call is followed statement by statement; pc is *)
(* the position of the call.                                               *)
(*                                                                         *)
(* Numbers.  The Python code computes with ints and floats.  The model     *)
(* computes with exact rationals <<n, d>> (d > 0, lowest terms), so that   *)
(* floor division, the half-row shift and the centroid are computed as the *)
(* code computes them, without rounding.  math.sqrt(2), math.sqrt(3) and   *)
(* the cosines are irrational and are stood in for by rationals.           *)
(*                                                                         *)
(* Solids.  The CAD kernel (cadquery) is external.  A solid is modelled by *)
(* the set of probe points of a finite in-plane grid (Universe) that it    *)
(* contains; union, cut and intersect are the set operations.              *)
(***************************************************************************)
EXTENDS Integers, Sequences, FiniteSets, TLC

(***************************************************************************)
(* Bounds of the model.                                                    *)
(***************************************************************************)
\* largest bounding width/height of a call
MaxSize == 4
\* most negative bounding width/height of a direct create_pattern call
MaxNegSize == 3
\* largest positive lattice spacing of a direct create_pattern call
MaxSpace == 2
\* largest radius handed to a builder
MaxRadius == 5
\* largest inter-motif distance handed to a builder
MaxDistance == 3

(***************************************************************************)
(* Exact rational arithmetic.  The operations are functions, so that their *)
(* arguments are values, and cancel common factors before they multiply.   *)
(***************************************************************************)
Abs(i) == IF i < 0 THEN -i ELSE i

Gcd[a \in Nat, b \in Nat] == IF b = 0 THEN a ELSE Gcd[b, a % b]
Lcm[a \in Nat, b \in Nat] == (a \div Gcd[a, b]) * b

\* the rational n/d (d # 0) in lowest terms with a positive denominator
Rat[n \in Int, d \in Int] ==
    IF d < 0
    THEN << (-n) \div Gcd[Abs(n), -d], (-d) \div Gcd[Abs(n), -d] >>
    ELSE << n \div Gcd[Abs(n), d], d \div Gcd[Abs(n), d] >>

Q == Int \X Int
RInt(i) == << i, 1 >>
RZero == RInt(0)
RAdd[a \in Q, b \in Q] ==
    Rat[a[1] * (Lcm[a[2], b[2]] \div a[2]) + b[1] * (Lcm[a[2], b[2]] \div b[2]),
        Lcm[a[2], b[2]]]
RNeg[a \in Q] == << -a[1], a[2] >>
RSub[a \in Q, b \in Q] == RAdd[a, RNeg[b]]
RMul[a \in Q, b \in Q] ==
    Rat[(a[1] \div Gcd[Abs(a[1]), b[2]]) * (b[1] \div Gcd[Abs(b[1]), a[2]]),
        (a[2] \div Gcd[Abs(b[1]), a[2]]) * (b[2] \div Gcd[Abs(a[1]), b[2]])]
\* a / b for b # 0
RDiv[a \in Q, b \in Q] == RMul[a, Rat[b[2], b[1]]]
RLe[a \in Q, b \in Q] ==
    a[1] * (Lcm[a[2], b[2]] \div a[2]) <= b[1] * (Lcm[a[2], b[2]] \div b[2])
RLt[a \in Q, b \in Q] == ~ RLe[b, a]
RAbs[a \in Q] == << Abs(a[1]), a[2] >>
RSq[a \in Q] == RMul[a, a]
\* floor(a) and ceil(a) as integers
RFloor[a \in Q] == a[1] \div a[2]
RCeil[a \in Q] == -((-a[1]) \div a[2])

\* s[lo] + ... + s[hi], summed by halves (exact arithmetic is associative)
RSumRange[s \in Seq(Q), lo \in Int, hi \in Int] ==
    IF lo > hi THEN RZero
    ELSE IF lo = hi THEN s[lo]
    ELSE RAdd[RSumRange[s, lo, (lo + hi) \div 2],
              RSumRange[s, (lo + hi) \div 2 + 1, hi]]
\* sum(s)
RSum(s) == RSumRange[s, 1, Len(s)]

\* rational stand-ins for the floats math.sqrt(2) and math.sqrt(3)
Sqrt2 == Rat[7, 5]
Sqrt3 == Rat[7, 4]

\* cos and sin of a multiple of 18 degrees (rational stand-ins for
\* math.cos / math.sin and for the kernel's rotation matrices)
CosQ[deg \in 0 .. 90] ==
    CASE deg = 0  -> Rat[1, 1]
      [] deg = 18 -> Rat[19, 20]
      [] deg = 36 -> Rat[4, 5]
      [] deg = 54 -> Rat[3, 5]
      [] deg = 72 -> Rat[3, 10]
      [] deg = 90 -> Rat[0, 1]
CosTurn[d \in 0 .. 359] ==
    IF d <= 90 THEN CosQ[d]
    ELSE IF d <= 180 THEN RNeg[CosQ[180 - d]]
    ELSE IF d <= 270 THEN RNeg[CosQ[d - 180]]
    ELSE CosQ[360 - d]
Cos[deg \in Int] == CosTurn[deg % 360]
Sin[deg \in Int] == Cos[deg + 270]

(***************************************************************************)
(* The kernel's solids: sets of probe points <<i, j>> of the plane.        *)
(***************************************************************************)
\* half-width of the probe grid: the largest clip frame plus a margin
Reach == MaxSize \div 2 + 2
Universe == (-Reach .. Reach) \X (-Reach .. Reach)

Union(a, b) == a \cup b
Cut(a, b) == a \ b
Intersect(a, b) == a \cap b

\* cq.Workplane.box(length, width, height), centered: its in-plane probes
Box(length, width) ==
    IF RLe[length, RZero] \/ RLe[width, RZero]
    THEN {}
    ELSE { c \in Universe : /\ RLe[RInt(2 * Abs(c[1])), length]
                            /\ RLe[RInt(2 * Abs(c[2])), width] }

\* a solid turned by a multiple of 90 degrees about the z axis
RotateZ(solid, degree) ==
    CASE degree % 360 = 0   -> solid
      [] degree % 360 = 90  -> { << -c[2], c[1] >> : c \in solid }
      [] degree % 360 = 180 -> { << -c[1], -c[2] >> : c \in solid }
      [] degree % 360 = 270 -> { << c[2], -c[1] >> : c \in solid }

\* a solid moved by an in-plane vector of integers
Translate(solid, t) == { << c[1] + t[1], c[2] + t[2] >> : c \in solid }

\* a point turned by deg degrees about the z axis
Turn[p \in Q \X Q, deg \in Int] ==
    << RSub[RMul[p[1], Cos[deg]], RMul[p[2], Sin[deg]]],
       RAdd[RMul[p[1], Sin[deg]], RMul[p[2], Cos[deg]]] >>

Cross[u \in Q \X Q, v \in Q \X Q] ==
    RSub[RMul[u[1], v[2]], RMul[u[2], v[1]]]

\* inside the closed disc of radius r about (cx, cy)
InDisc[dx \in Q, dy \in Q, cx \in Q, cy \in Q, r \in Q] ==
    /\ RLt[RZero, r]
    /\ RLe[RAdd[RSq[RSub[dx, cx]], RSq[RSub[dy, cy]]], RSq[r]]

\* cq.Workplane.slot2D(length, diameter) along the x axis: a rectangle with
\* two round ends, length overall
InSlot2D[dx \in Q, dy \in Q, length \in Q, diameter \in Q] ==
    \/ /\ RLe[RAbs[dx], RDiv[RSub[length, diameter], RInt(2)]]
       /\ RLe[RAbs[dy], RDiv[diameter, RInt(2)]]
    \/ InDisc[RAbs[dx], dy, RDiv[RSub[length, diameter], RInt(2)], RZero,
              RDiv[diameter, RInt(2)]]

\* inside the triangle (origin, a, b), a and b counterclockwise
InTriangle[p \in Q \X Q, a \in Q \X Q, b \in Q \X Q] ==
    /\ RLe[RZero, Cross[a, p]]
    /\ RLe[RZero, Cross[p, b]]
    /\ RLe[RZero, Cross[<< RSub[b[1], a[1]], RSub[b[2], a[2]] >>,
                        << RSub[p[1], a[1]], RSub[p[2], a[2]] >>]]

\* inside the closed polygon with vertex list pts (closed, counterclockwise
\* and star-shaped about the origin)
InPolygon(dx, dy, pts) ==
    \E i \in 1 .. Len(pts) - 1 : InTriangle[<< dx, dy >>, pts[i], pts[i + 1]]

(***************************************************************************)
(* The motifs.  A motif (the parameter "object" of create_pattern) is      *)
(* described by the kernel calls that built it; Covers says which offsets  *)
(* from its origin it contains, extent bounds them.                        *)
(***************************************************************************)
NoObject == [ kind |-> "none", extent |-> RZero ]

\* object.val().located(loc) contains the point at offset (dx, dy) from loc
Covers(object, dx, dy) ==
    CASE object.kind = "box" ->
           \* a box of the given side about the origin
           /\ RLe[RMul[RInt(2), RAbs[dx]], object.length]
           /\ RLe[RMul[RInt(2), RAbs[dy]], object.length]
      [] object.kind = "hexagon" ->
           \* polygon(6, 2 * actual_r): vertices on the circle of radius
           \* |actual_r|, two of them on the x axis (on the y axis when the
           \* turn by 90 degrees took effect)
           IF object.turned
           THEN /\ RLe[RAbs[dx], object.flat]
                /\ RLe[RAdd[RMul[Sqrt3, RAbs[dy]], RAbs[dx]],
                       RMul[RInt(2), object.flat]]
           ELSE /\ RLe[RAbs[dy], object.flat]
                /\ RLe[RAdd[RMul[Sqrt3, RAbs[dx]], RAbs[dy]],
                       RMul[RInt(2), object.flat]]
      [] object.kind = "diamond" ->
           \* cdisk.cut(disks): the inner disc minus the four corner discs
           /\ InDisc[dx, dy, RZero, RZero, object.inner]
           /\ \A sx \in {-1, 1}, sy \in {-1, 1} :
                ~ InDisc[dx, dy, RMul[RInt(sx), object.radius],
                         RMul[RInt(sy), object.radius], object.radius]
      [] object.kind = "star" ->
           InPolygon(dx, dy, object.outline)
      [] object.kind = "plus" ->
           \* V.extrude(depth).union(H.extrude(depth))
           \/ InSlot2D[dx, dy, object.length, RDiv[object.length, RInt(4)]]
           \/ InSlot2D[dy, dx, object.length, RDiv[object.length, RInt(4)]]
      [] object.kind = "slot" ->
           \* slot2D(..., angle=90): along the y axis
           InSlot2D[dy, dx, object.length, RDiv[object.length, RInt(4)]]
      [] object.kind = "square" ->
           \* box(length, length, depth) turned by 45 degrees
           RLe[RAdd[RAbs[dx], RAbs[dy]],
               RDiv[RMul[Sqrt2, object.length], RInt(2)]]
      [] object.kind = "none" -> FALSE

(***************************************************************************)
(* create_pattern, statement by statement.                                 *)
(***************************************************************************)
\* int(x_lim // x_space) + 2, for x_space # 0
ColsNoMargin(xl, x_sp) == RFloor[RDiv[xl, x_sp]]
ColsCeil(xl, x_sp) == RCeil[RDiv[xl, x_sp]]
Cols(xl, x_sp) == RFloor[RDiv[xl, x_sp]] + 2

\* int(y_lim // y_space) + 2, for y_space # 0
RowsNoMargin(yl, y_sp) == RFloor[RDiv[yl, y_sp]]
RowsOneExtra(yl, y_sp) == RFloor[RDiv[yl, y_sp]] + 1
Rows(yl, y_sp) == RFloor[RDiv[yl, y_sp]] + 2

\* the point appended for grid index (col, row)
RawPointShiftEven(col, row, x_sp, y_sp, shift) ==
    << RMul[RInt(col), x_sp],
       IF col % 2 = 0 /\ shift
       THEN RAdd[RMul[RInt(row), y_sp], RDiv[y_sp, RInt(2)]]
       ELSE RMul[RInt(row), y_sp] >>
RawPoint(col, row, x_sp, y_sp, shift) ==
    << RMul[RInt(col), x_sp],
       IF col % 2 = 1 /\ shift
       THEN RAdd[RMul[RInt(row), y_sp], RDiv[y_sp, RInt(2)]]
       ELSE RMul[RInt(row), y_sp] >>

\* raw_points after the two nested loops (col outer, row inner)
RawPoints(n_cols, n_rows, x_sp, y_sp, shift) ==
    IF n_cols <= 0 \/ n_rows <= 0
    THEN << >>
    ELSE [ k \in 1 .. n_cols * n_rows |->
             RawPoint((k - 1) \div n_rows, (k - 1) % n_rows, x_sp, y_sp,
                      shift) ]

Xs(pts) == [ k \in DOMAIN pts |-> pts[k][1] ]
Ys(pts) == [ k \in DOMAIN pts |-> pts[k][2] ]

\* sum(p[i] for p in raw_points) / len(raw_points), raw_points not empty
AvgFloorDiv(coords) == RInt(RFloor[RDiv[RSum(coords), RInt(Len(coords))]])
Avg(coords) == RDiv[RSum(coords), RInt(Len(coords))]

\* [(p[0] - avg_x, p[1] - avg_y) for p in raw_points]
Centered(pts, avg_x, avg_y) ==
    [ k \in DOMAIN pts |->
        << RSub[pts[k][1], avg_x], RSub[pts[k][2], avg_y] >> ]

\* the union of the motif placed at every point (pushPoints, then eachpoint
\* with combine=True)
Placed(motif, pts) ==
    { c \in Universe :
        \E k \in DOMAIN pts :
            \E dx \in { RSub[RInt(c[1]), pts[k][1]] },
               dy \in { RSub[RInt(c[2]), pts[k][2]] } :
                /\ RLe[RAbs[dx], motif.extent]
                /\ RLe[RAbs[dy], motif.extent]
                /\ Covers(motif, dx, dy) }

\* if invert: cut_frame.cut(result) else: cut_frame.intersect(result)
CombineBothCut(frame, motifs, invert) ==
    IF invert THEN Cut(frame, motifs) ELSE Cut(frame, motifs)
CombineUnclipped(frame, motifs, invert) ==
    IF invert THEN Cut(frame, motifs) ELSE motifs
Combine(frame, motifs, invert) ==
    IF invert THEN Cut(frame, motifs) ELSE Intersect(frame, motifs)

(***************************************************************************)
(* The builders: the motif each builds and the spacing it passes on.       *)
(***************************************************************************)
honeycomb_dist_to_flat(radius, distance) ==
    RSub[RDiv[RMul[radius, Sqrt3], RInt(2)], RDiv[distance, RInt(2)]]
honeycomb_actual_r(radius, distance) ==
    RDiv[honeycomb_dist_to_flat(radius, distance), RDiv[Sqrt3, RInt(2)]]
honeycomb_object(radius, distance, turned) ==
    [ kind |-> "hexagon",
      actual_r |-> honeycomb_actual_r(radius, distance),
      flat |-> RAbs[RMul[honeycomb_actual_r(radius, distance),
                         RDiv[Sqrt3, RInt(2)]]],
      turned |-> turned,
      extent |-> RAbs[honeycomb_actual_r(radius, distance)] ]
honeycomb_x(radius, distance) == RMul[Rat[3, 2], radius]
honeycomb_y(radius, distance) == RMul[Sqrt3, radius]

diamond_object(radius, distance) ==
    [ kind |-> "diamond", radius |-> radius,
      inner |-> RSub[radius, distance],
      extent |-> RAbs[RSub[radius, distance]] ]
diamond_x(radius, distance) == RSub[radius, distance]
diamond_y(radius, distance) == RMul[RInt(2), RSub[radius, distance]]

\* the vertex list "points" of star: entry i + 1 of the sequence is the
\* point (r * cos(angle), r * sin(angle)) appended for index i, kept as
\* [r, angle in degrees]; the last entry is points[0] again
StarRange == 10
star_inner_radius_half(radius) == RMul[radius, Rat[1, 2]]
star_inner_radius(radius) == RMul[radius, Rat[2, 5]]
star_vertices(radius) ==
    [ k \in 1 .. StarRange |->
        [ r |-> IF (k - 1) % 2 = 0 THEN radius
                                   ELSE star_inner_radius(radius),
          angle |-> (k - 1) * 36 ] ]
\* points.append(points[0])
star_points(radius) ==
    Append(star_vertices(radius), star_vertices(radius)[1])
\* the vertices as the kernel has them after .rotate((0,0,0), (0,0,1), 18)
star_outline(pts) ==
    [ k \in DOMAIN pts |->
        Turn[<< RMul[pts[k].r, Cos[pts[k].angle]],
                RMul[pts[k].r, Sin[pts[k].angle]] >>, 18] ]
star_object(radius, distance) ==
    [ kind |-> "star", outline |-> star_outline(star_points(radius)),
      extent |-> radius ]
star_x(radius, distance) == RAdd[RMul[RInt(2), radius], distance]
star_y(radius, distance) == RAdd[RMul[RInt(2), radius], distance]

plus_object(radius, distance) ==
    [ kind |-> "plus", length |-> RMul[RInt(2), radius], extent |-> radius ]
plus_x(radius, distance) ==
    RAdd[RAdd[radius, RDiv[radius, RInt(4)]], distance]
plus_y(radius, distance) == RAdd[RMul[RInt(2), radius], distance]

slot_object(radius, distance) ==
    [ kind |-> "slot", length |-> RMul[RInt(2), radius], extent |-> radius ]
slot_x(radius, distance) ==
    RAdd[RDiv[RMul[RInt(2), radius], RInt(4)], distance]
slot_y(radius, distance) == RAdd[RMul[RInt(2), radius], distance]

square_object(radius, distance) ==
    [ kind |-> "square", length |-> RMul[RInt(2), radius],
      extent |-> RDiv[RMul[Sqrt2, RMul[RInt(2), radius]], RInt(2)] ]
square_x(radius, distance) ==
    RAdd[RDiv[RMul[Sqrt2, RMul[RInt(2), radius]], RInt(2)], distance]
square_y(radius, distance) ==
    RAdd[RMul[Sqrt2, RMul[RInt(2), radius]], distance]

\* a kernel primitive of the motif has no extent (a circle of radius <= 0,
\* a polygon of diameter 0)
Hollow(motif) ==
    CASE motif.kind = "hexagon" -> motif.actual_r = RZero
      [] motif.kind = "diamond" -> RLe[motif.inner, RZero]
      [] OTHER -> FALSE

(***************************************************************************)
(* Through-plane extents: the closed interval << lo, hi >> of the z axis   *)
(* a solid occupies.                                                       *)
(***************************************************************************)
RMin(a, b) == IF RLe[a, b] THEN a ELSE b
RMax(a, b) == IF RLe[a, b] THEN b ELSE a

\* .extrude(depth) of a sketch on the XY plane
ExtrudeZ(depth) == << RMin(RZero, depth), RMax(RZero, depth) >>
\* .box(length, width, height), centered
BoxZ(height) ==
    << RNeg[RDiv[height, RInt(2)]], RDiv[height, RInt(2)] >>
\* .translate((0, 0, dz)), and .located(loc) for a loc at height dz
TranslateZ(z, dz) == << RAdd[z[1], dz], RAdd[z[2], dz] >>
\* a.union(b)
UnionZ(a, b) == << RMin(a[1], b[1]), RMax(a[2], b[2]) >>

honeycomb_z(depth) == ExtrudeZ(depth)
\* cdisk.cut(disks): what is left of cdisk
diamond_z(depth) == ExtrudeZ(depth)
star_z(depth) == ExtrudeZ(depth)
plus_z(depth) == UnionZ(ExtrudeZ(depth), ExtrudeZ(depth))
slot_z(depth) == ExtrudeZ(depth)
square_z(depth) == TranslateZ(BoxZ(depth), RDiv[depth, RInt(2)])

\* the through-plane extent of the motif the named builder builds
MotifZ(name, depth) ==
    CASE name = "honeycomb" -> honeycomb_z(depth)
      [] name = "diamond" -> diamond_z(depth)
      [] name = "star" -> star_z(depth)
      [] name = "plus" -> plus_z(depth)
      [] name = "slot" -> slot_z(depth)
      [] name = "square" -> square_z(depth)

\* cq.Workplane('XY').box(x_lim, y_lim, depth * 2)
FrameZSingleDepth(depth) == BoxZ(depth)
FrameZ(depth) == BoxZ(RMul[depth, RInt(2)])

(***************************************************************************)
(* generate_pattern: the name-indexed selector.                            *)
(***************************************************************************)
Keys == { "honeycomb", "diamond", "star", "plus", "slot", "square" }

\* the builder the if/elif chain calls for a key, "ValueError" for the
\* else branch
SelectedOrSquare(type) ==
    IF type \in { "honeycomb", "diamond", "star", "plus", "slot" }
    THEN type ELSE "square"
Selected(type) ==
    IF type = "honeycomb" THEN "honeycomb"
    ELSE IF type = "diamond" THEN "diamond"
    ELSE IF type = "star" THEN "star"
    ELSE IF type = "plus" THEN "plus"
    ELSE IF type = "slot" THEN "slot"
    ELSE IF type = "square" THEN "square"
    ELSE "ValueError"

(***************************************************************************)
(* The state machine: one call of generate_pattern, or of create_pattern   *)
(* itself, on arguments drawn from bounded sets.                           *)
(***************************************************************************)
VARIABLES
    pc,               \* the position of the call
    args,             \* the arguments of the call
    builder,          \* the builder that ran, "none" before and without one
    error,            \* the exception raised, "none" without one
    line,             \* the source line that raised it, 0 without one
    object,           \* create_pattern's parameters object, x_space,
    x_space,          \*   y_space and odd_row_shift
    y_space,
    odd_row_shift,
    points,           \* star's vertex list
    cols,             \* create_pattern's locals
    rows,
    raw_points,
    centered_points,
    cut_frame,
    placed,           \* "result" before the cut or intersect
    result,           \* "result" after it
    returned,         \* the solid handed back to the caller
    object_z,         \* the through-plane extent of object,
    frame_z,          \*   of cut_frame
    placed_z          \*   and of the placed motifs

VARIABLES
    stage,               \* the position of the script pivar_box
    mount_count,         \* the script's parameters, as configured and
    mount_thickness,     \*   as the validation block leaves them
    box_width,
    box_height,
    box_wall_thickness,
    min_w,
    pattern,
    p_engraved,
    u,                   \* the pattern solid, "unbound" before line 275
    box,                 \* the box solid, by what was done to it
    logged,              \* the message of lines 273 or 279
    exported,            \* the files written
    failure              \* the exception that ended the script

script == << stage, mount_count, mount_thickness, box_width, box_height,
             box_wall_thickness, min_w, pattern, p_engraved, u, box, logged,
             exported, failure >>

params == << object, x_space, y_space, odd_row_shift, object_z >>
lattice == << cols, rows, raw_points, centered_points >>
solids == << cut_frame, placed, result, returned, frame_z, placed_z >>
call == << pc, args, builder, error, line, points, params, lattice, solids >>
vars == << call, script >>

OtherKeys == { "hexagram", "", "Square" }

\* the spacings of a direct call: 1, 3/2, 2, ..., MaxSpace, and 0 and -1
Spaces == { Rat[n, 2] : n \in 2 .. 2 * MaxSpace } \cup { RZero, Rat[-1, 1] }

GenerateArgs ==
    [ entry : { "generate_pattern" },
      type : Keys \cup OtherKeys,
      size : { RInt(w) : w \in MaxSize - 1 .. MaxSize }
             \X { RInt(h) : h \in MaxSize - 1 .. MaxSize },
      radius : { RInt(r) : r \in 2 .. MaxRadius },
      depth : { Rat[1, 2], RInt(1) },
      distance : { RInt(d) : d \in 1 .. MaxDistance },
      rotation : { 0, 90 },
      translation : { << 0, 0 >>, << 1, 0 >> },
      invert : BOOLEAN ]

CreateArgs ==
    [ entry : { "create_pattern" },
      object : { [ kind |-> "box", length |-> RInt(1), extent |-> RInt(1) ] },
      size : { RInt(w) : w \in -MaxNegSize .. MaxSize }
             \X { RInt(h) : h \in -MaxNegSize .. MaxSize },
      depth : { RInt(1) },
      x_space : Spaces,
      y_space : Spaces,
      odd_row_shift : BOOLEAN,
      invert : BOOLEAN ]

\* no script is running
NoFailure == [ exception |-> "none", line |-> 0 ]
ScriptIdle ==
    /\ stage = "idle"
    /\ mount_count = 0
    /\ mount_thickness = RZero
    /\ box_width = RZero
    /\ box_height = RZero
    /\ box_wall_thickness = RZero
    /\ min_w = RZero
    /\ pattern = << "NoneType", "" >>
    /\ p_engraved = FALSE
    /\ u = "unbound"
    /\ box = "unbound"
    /\ logged = "none"
    /\ exported = {}
    /\ failure = NoFailure

\* the locals of a call before it runs
CallLocals ==
    /\ builder = "none"
    /\ error = "none"
    /\ line = 0
    /\ object = NoObject
    /\ x_space = RZero
    /\ y_space = RZero
    /\ odd_row_shift = FALSE
    /\ points = << >>
    /\ cols = 0
    /\ rows = 0
    /\ raw_points = << >>
    /\ centered_points = << >>
    /\ cut_frame = {}
    /\ placed = {}
    /\ result = {}
    /\ returned = {}
    /\ object_z = << RZero, RZero >>
    /\ frame_z = << RZero, RZero >>
    /\ placed_z = << RZero, RZero >>

Init ==
    /\ pc = "call"
    /\ args \in GenerateArgs \cup CreateArgs
    /\ CallLocals
    /\ ScriptIdle

\* x_lim, y_lim = size
x_lim == args.size[1]
y_lim == args.size[2]

\* the call ends with an exception raised at a line
Raise(exception, at) ==
    /\ pc' = "raised"
    /\ error' = exception
    /\ line' = at

\* generate_pattern: the if/elif chain on type, lines 248-261
GeneratePattern ==
    /\ pc = "call"
    /\ args.entry = "generate_pattern"
    /\ IF Selected(args.type) = "ValueError"
       THEN Raise("ValueError", 261)
       ELSE pc' = Selected(args.type) /\ UNCHANGED << error, line >>
    /\ UNCHANGED << script, args, builder, points, params, lattice, solids >>

\* a builder up to its call of create_pattern: it builds the motif (the
\* kernel may reject a primitive without extent) and passes the motif, its
\* spacing and its odd_row_shift on
Build(name, motif, x, y, shift, vertices, at) ==
    /\ pc = name
    /\ builder' = name
    /\ points' = vertices
    /\ \E kernel_rejects \in IF Hollow(motif) THEN BOOLEAN ELSE { FALSE } :
         IF kernel_rejects
         THEN /\ Raise("KernelError", at)
              /\ UNCHANGED params
         ELSE /\ pc' = "create_pattern"
              /\ object' = motif
              /\ x_space' = x
              /\ y_space' = y
              /\ odd_row_shift' = shift
              /\ object_z' = MotifZ(name, args.depth)
              /\ UNCHANGED << error, line >>
    /\ UNCHANGED << script, args, lattice, solids >>

\* lines 71-101; whether .rotate(..., 90) turns the pending wire that
\* .extrude consumes is left to the kernel
Honeycomb ==
    \E turned \in BOOLEAN :
        Build("honeycomb",
              honeycomb_object(args.radius, args.distance, turned),
              honeycomb_x(args.radius, args.distance),
              honeycomb_y(args.radius, args.distance), TRUE, << >>, 93)

\* lines 109-153
Diamond ==
    Build("diamond", diamond_object(args.radius, args.distance),
          diamond_x(args.radius, args.distance),
          diamond_y(args.radius, args.distance), TRUE, << >>, 133)

\* lines 162-189
Star ==
    Build("star", star_object(args.radius, args.distance),
          star_x(args.radius, args.distance),
          star_y(args.radius, args.distance), FALSE,
          star_points(args.radius), 179)

\* lines 197-209
Plus ==
    Build("plus", plus_object(args.radius, args.distance),
          plus_x(args.radius, args.distance),
          plus_y(args.radius, args.distance), TRUE, << >>, 202)

\* lines 214-221
Slot ==
    Build("slot", slot_object(args.radius, args.distance),
          slot_x(args.radius, args.distance),
          slot_y(args.radius, args.distance), TRUE, << >>, 217)

\* lines 226-241
Square ==
    Build("square", square_object(args.radius, args.distance),
          square_x(args.radius, args.distance),
          square_y(args.radius, args.distance), TRUE, << >>, 231)

\* a caller calls create_pattern itself, with its own motif and lattice
CallCreatePattern ==
    /\ pc = "call"
    /\ args.entry = "create_pattern"
    /\ pc' = "create_pattern"
    /\ object' = args.object
    /\ x_space' = args.x_space
    /\ y_space' = args.y_space
    /\ odd_row_shift' = args.odd_row_shift
    /\ object_z' = BoxZ(args.object.length)
    /\ UNCHANGED << script, args, builder, error, line, points, lattice, solids >>

\* create_pattern lines 31-36: cols and rows; a spacing of 0 raises
ColsRows ==
    /\ pc = "create_pattern"
    /\ IF x_space = RZero
       THEN Raise("ZeroDivisionError", 35) /\ UNCHANGED << cols, rows >>
       ELSE IF y_space = RZero
       THEN /\ Raise("ZeroDivisionError", 36)
            /\ cols' = Cols(x_lim, x_space)
            /\ UNCHANGED rows
       ELSE /\ cols' = Cols(x_lim, x_space)
            /\ rows' = Rows(y_lim, y_space)
            /\ pc' = "points"
            /\ UNCHANGED << error, line >>
    /\ UNCHANGED << script, args, builder, points, params, raw_points,
                    centered_points, solids >>

\* create_pattern lines 38-45: the two nested loops
Points ==
    /\ pc = "points"
    /\ raw_points' = RawPoints(cols, rows, x_space, y_space, odd_row_shift)
    /\ pc' = "center"
    /\ UNCHANGED << script, args, builder, error, line, points, params, cols, rows,
                    centered_points, solids >>

\* create_pattern lines 47-50: the centroid and the centered points; the
\* division by len(raw_points) raises when there is no point
Center ==
    /\ pc = "center"
    /\ IF Len(raw_points) = 0
       THEN Raise("ZeroDivisionError", 48) /\ UNCHANGED centered_points
       ELSE /\ \E avg_x \in { Avg(Xs(raw_points)) },
                  avg_y \in { Avg(Ys(raw_points)) } :
                 centered_points' = Centered(raw_points, avg_x, avg_y)
            /\ pc' = "frame"
            /\ UNCHANGED << error, line >>
    /\ UNCHANGED << script, args, builder, points, params, cols, rows, raw_points,
                    solids >>

\* create_pattern lines 52-61: the clip frame and the placed motifs; the
\* kernel may reject a box without volume
Frame ==
    /\ pc = "frame"
    /\ \E kernel_rejects \in
            IF \/ RLe[x_lim, RZero]
               \/ RLe[y_lim, RZero]
               \/ RLe[args.depth, RZero]
            THEN BOOLEAN ELSE { FALSE } :
         IF kernel_rejects
         THEN /\ Raise("KernelError", 54)
              /\ UNCHANGED << cut_frame, placed, frame_z, placed_z >>
         ELSE /\ cut_frame' = Box(x_lim, y_lim)
              /\ frame_z' = FrameZ(args.depth)
              /\ placed' = Placed(object, centered_points)
              /\ placed_z' = TranslateZ(object_z, RZero)
              /\ pc' = "combine"
              /\ UNCHANGED << error, line >>
    /\ UNCHANGED << script, args, builder, points, params, lattice, result,
                    returned >>

\* create_pattern lines 63-68: the cut or the intersection, and the return
\* to the builder or to the caller
CombineAndReturn ==
    /\ pc = "combine"
    /\ result' = Combine(cut_frame, placed, args.invert)
    /\ IF args.entry = "create_pattern"
       THEN /\ pc' = "done"
            /\ returned' = Combine(cut_frame, placed, args.invert)
       ELSE /\ pc' = "tail"
            /\ UNCHANGED returned
    /\ UNCHANGED << script, args, builder, error, line, points, params, lattice,
                    cut_frame, placed, frame_z, placed_z >>

\* the tail of every builder: result.rotate(...).translate(...); return
RotateAndTranslate ==
    /\ pc = "tail"
    /\ returned' = Translate(RotateZ(result, args.rotation), args.translation)
    /\ pc' = "done"
    /\ UNCHANGED << script, args, builder, error, line, points, params, lattice,
                    cut_frame, placed, result, frame_z, placed_z >>

Next ==
    \/ GeneratePattern
    \/ Honeycomb
    \/ Diamond
    \/ Star
    \/ Plus
    \/ Slot
    \/ Square
    \/ CallCreatePattern
    \/ ColsRows
    \/ Points
    \/ Center
    \/ Frame
    \/ CombineAndReturn
    \/ RotateAndTranslate

Spec == Init /\ [][Next]_vars

(***************************************************************************)
(* The script pivar_box, from the end of its configuration (line 97) to    *)
(* its exports.  A Python string s is << "str", s >>, None is              *)
(* << "NoneType", "" >>.                                                   *)
(***************************************************************************)
mount_beam_size == 3
box_attachment_thickness == 3
box_fillet_r == 4
clearence == Rat[1, 5]

\* the truth value Python gives a string or None
Truthy(v) == v[1] = "str" /\ v[2] # ""

\* a // b on numbers
FloorDiv(a, b) == RInt(RFloor[RDiv[a, b]])

\* (mount_count * 32) + box_wall_thickness
MinHeight(count, wall) == RAdd[RInt(count * 32), wall]

\* lines 113-114
MinW(thickness) ==
    FloorDiv(RNeg[RAdd[RAdd[RAdd[RAdd[thickness, RInt(mount_beam_size)],
                                 RInt(box_attachment_thickness)],
                            RAdd[RInt(22), RInt(box_fillet_r)]],
                       clearence]],
             RInt(-1))

\* the configurations: the defaults of lines 24-54 and values a
\* configuration file may give instead
Patterns ==
    { << "str", "square" >>, << "str", "hexagram" >>, << "str", "" >>,
      << "NoneType", "" >> }

ScriptInit ==
    /\ pc = "idle"
    /\ args = [ entry |-> "none" ]
    /\ CallLocals
    /\ stage = "box_height"
    /\ mount_count \in { 1, 2 }
    /\ mount_thickness \in { Rat[1, 2], Rat[8, 5] }
    /\ box_width \in { RInt(40), RInt(66), RInt(80) }
    /\ box_height \in { RInt(10), RInt(40), RInt(80) }
    /\ box_wall_thickness \in { Rat[1, 2], Rat[4, 5], Rat[8, 5] }
    /\ min_w = RZero
    /\ pattern \in Patterns
    /\ p_engraved \in BOOLEAN
    /\ u = "unbound"
    /\ box = "unbound"
    /\ logged = "none"
    /\ exported = {}
    /\ failure = NoFailure

\* the script ends with an exception raised at a line
Fail(exception, line_no) ==
    /\ stage' = "failed"
    /\ failure' = [ exception |-> exception, line |-> line_no ]

\* lines 100-103
ClampBoxHeight ==
    /\ stage = "box_height"
    /\ box_height' = IF RLt[box_height,
                            MinHeight(mount_count, box_wall_thickness)]
                     THEN MinHeight(mount_count, box_wall_thickness)
                     ELSE box_height
    /\ stage' = "mount_thickness"
    /\ UNCHANGED << call, mount_count, mount_thickness, box_width,
                    box_wall_thickness, min_w, pattern, p_engraved, u, box,
                    logged, exported, failure >>

\* lines 105-107
ClampMountThickness ==
    /\ stage = "mount_thickness"
    /\ mount_thickness' = IF RLt[mount_thickness, Rat[4, 5]]
                          THEN Rat[4, 5]
                          ELSE mount_thickness
    /\ stage' = "box_wall_thickness"
    /\ UNCHANGED << call, mount_count, box_width, box_height,
                    box_wall_thickness, min_w, pattern, p_engraved, u, box,
                    logged, exported, failure >>

\* lines 109-111
ClampBoxWallThickness ==
    /\ stage = "box_wall_thickness"
    /\ box_wall_thickness' = IF RLt[box_wall_thickness, Rat[4, 5]]
                             THEN RMax(Rat[4, 5], box_wall_thickness)
                             ELSE box_wall_thickness
    /\ stage' = "box_width"
    /\ UNCHANGED << call, mount_count, mount_thickness, box_width, box_height,
                    min_w, pattern, p_engraved, u, box, logged, exported,
                    failure >>

\* lines 113-118
ClampBoxWidth ==
    /\ stage = "box_width"
    /\ min_w' = MinW(mount_thickness)
    /\ box_width' = IF RLt[box_width, RMul[RInt(2), MinW(mount_thickness)]]
                    THEN RMax(box_width, RMul[RInt(2), MinW(mount_thickness)])
                    ELSE box_width
    /\ stage' = "solids"
    /\ UNCHANGED << call, mount_count, mount_thickness, box_height,
                    box_wall_thickness, pattern, p_engraved, u, box, logged,
                    exported, failure >>

\* lines 120-270: the mount, the box and the lid are built
BuildSolids ==
    /\ stage = "solids"
    /\ box' = "plain"
    /\ stage' = "pattern"
    /\ UNCHANGED << call, mount_count, mount_thickness, box_width, box_height,
                    box_wall_thickness, min_w, pattern, p_engraved, u, logged,
                    exported, failure >>

\* lines 272-279: generate_pattern is called for a pattern that is true,
\* and raises for a key it does not know
GetPattern ==
    /\ stage = "pattern"
    /\ IF Truthy(pattern)
       THEN /\ logged' = "Adding pattern"
            /\ IF Selected(pattern[2]) = "ValueError"
               THEN Fail("ValueError", 275) /\ UNCHANGED u
               ELSE /\ u' = "pattern"
                    /\ stage' = "apply"
                    /\ UNCHANGED failure
       ELSE /\ logged' = "No pattern"
            /\ stage' = "apply"
            /\ UNCHANGED << u, failure >>
    /\ UNCHANGED << call, mount_count, mount_thickness, box_width, box_height,
                    box_wall_thickness, min_w, pattern, p_engraved, box,
                    exported >>

\* lines 281-284: reading u before line 275 bound it raises NameError
\* (u is bound whenever pattern is true)
ApplyPattern ==
    /\ stage = "apply"
    /\ IF p_engraved /\ Truthy(pattern)
       THEN box' = "cut" /\ stage' = "export" /\ UNCHANGED failure
       ELSE IF u = "unbound"
            THEN Fail("NameError", 284) /\ UNCHANGED box
            ELSE box' = "union" /\ stage' = "export" /\ UNCHANGED failure
    /\ UNCHANGED << call, mount_count, mount_thickness, box_width, box_height,
                    box_wall_thickness, min_w, pattern, p_engraved, u, logged,
                    exported >>

\* lines 286-300
Export ==
    /\ stage = "export"
    /\ exported' = { "mount", "box", "lid" }
    /\ stage' = "exit"
    /\ UNCHANGED << call, mount_count, mount_thickness, box_width, box_height,
                    box_wall_thickness, min_w, pattern, p_engraved, u, box,
                    logged, failure >>

ScriptNext ==
    \/ ClampBoxHeight
    \/ ClampMountThickness
    \/ ClampBoxWallThickness
    \/ ClampBoxWidth
    \/ BuildSolids
    \/ GetPattern
    \/ ApplyPattern
    \/ Export

ScriptSpec == ScriptInit /\ [][ScriptNext]_vars

(***************************************************************************)
(* Positions of a call, for the properties below.                          *)
(***************************************************************************)
\* cols and rows are computed (lines 35-36 ran)
SizedAt ==
    \/ pc \in { "points", "center", "frame", "combine", "tail", "done" }
    \/ pc = "raised" /\ line \in { 48, 54 }
\* raw_points is complete (lines 38-45 ran)
PointsAt ==
    \/ pc \in { "center", "frame", "combine", "tail", "done" }
    \/ pc = "raised" /\ line \in { 48, 54 }
\* centered_points is computed (lines 48-50 ran)
CenteredAt ==
    \/ pc \in { "frame", "combine", "tail", "done" }
    \/ pc = "raised" /\ line = 54
\* the tiling step returned (line 68 ran)
TiledAt == pc \in { "tail", "done" }

\* the bounding size is not negative and both spacings are positive
ProperLattice ==
    /\ RLe[RZero, x_lim] /\ RLe[RZero, y_lim]
    /\ RLt[RZero, x_space] /\ RLt[RZero, y_space]

(***************************************************************************)
(* C1: generate_pattern hands each of the six keys to the builder of the   *)
(* same name; for any other key it raises ValueError (line 261), no        *)
(* builder runs, create_pattern is never entered and nothing is returned.  *)
(***************************************************************************)
C1_Dispatch ==
    args.entry = "generate_pattern" =>
        /\ args.type \in Keys =>
             /\ error # "ValueError"
             /\ pc \in Keys => pc = args.type
             /\ pc \notin Keys \cup { "call" } => builder = args.type
             /\ builder \in { "none", args.type }
        /\ args.type \notin Keys =>
             /\ pc \in { "call", "raised" }
             /\ pc = "raised" => error = "ValueError" /\ line = 261
             /\ builder = "none"
             /\ object = NoObject
             /\ returned = {} /\ result = {} /\ placed = {}

\* an unknown key was rejected
C1_Witness ==
    /\ args.entry = "generate_pattern"
    /\ args.type = "hexagram"
    /\ pc = "raised"
    /\ error = "ValueError"

(***************************************************************************)
(* C2: centering invariant.  Whenever create_pattern has computed          *)
(* centered_points, there is one centered point per raw point and the sum  *)
(* of their x coordinates and the sum of their y coordinates are both 0,   *)
(* for every size, spacing and odd_row_shift of the call.                  *)
(***************************************************************************)
C2_Centered ==
    CenteredAt =>
        /\ Len(centered_points) = Len(raw_points)
        /\ Len(centered_points) > 0
        /\ RSum(Xs(centered_points)) = RZero
        /\ RSum(Ys(centered_points)) = RZero

\* a shifted lattice with an odd number of columns, whose centroid is not
\* on the lattice
C2_Witness ==
    /\ CenteredAt
    /\ odd_row_shift
    /\ cols = 3
    /\ rows >= 2
    /\ raw_points[1] # centered_points[1]
    /\ \A k \in DOMAIN centered_points : centered_points[k][2] # RZero

(***************************************************************************)
(* C3: coverage invariant.  For a bounding size (W, H) with W, H >= 0 and  *)
(* spacings sx, sy > 0, cols >= ceil(W / sx) and rows >= ceil(H / sy).     *)
(***************************************************************************)
C3_Coverage ==
    SizedAt /\ ProperLattice =>
        /\ cols >= RCeil[RDiv[x_lim, x_space]]
        /\ rows >= RCeil[RDiv[y_lim, y_space]]
        \* the columns reach the far edge: (cols - 1) * sx >= W
        /\ RLe[x_lim, RMul[RInt(cols - 1), x_space]]
        /\ RLe[y_lim, RMul[RInt(rows - 1), y_space]]

\* a width that is no multiple of the spacing
C3_Witness ==
    /\ SizedAt
    /\ ProperLattice
    /\ x_lim = RInt(4)
    /\ x_space = Rat[3, 2]
    /\ cols = 4

(***************************************************************************)
(* C4 as stated: for W > 0 and sx > 0 the number of columns is             *)
(* ceil(W / sx) + 1, and for H > 0 and sy > 0 the number of rows is        *)
(* ceil(H / sy) + 1.                                                       *)
(***************************************************************************)
C4_CeilPlusOne ==
    SizedAt =>
        /\ RLt[RZero, x_lim] /\ RLt[RZero, x_space] =>
             cols = RCeil[RDiv[x_lim, x_space]] + 1
        /\ RLt[RZero, y_lim] /\ RLt[RZero, y_space] =>
             rows = RCeil[RDiv[y_lim, y_space]] + 1

\* W (H) is a whole multiple of sx (sy)
Multiple(a, b) == RDiv[a, b][2] = 1

(***************************************************************************)
(* C4 amended: for W > 0 and sx > 0 the number of columns is               *)
(* ceil(W / sx) + 1 when W is no whole multiple of sx, and ceil(W / sx) + 2*)
(* when it is; likewise the rows for H > 0 and sy > 0.                     *)
(***************************************************************************)
C4_CeilPlusOneOrTwo ==
    SizedAt =>
        /\ RLt[RZero, x_lim] /\ RLt[RZero, x_space] =>
             cols = RCeil[RDiv[x_lim, x_space]]
                    + (IF Multiple(x_lim, x_space) THEN 2 ELSE 1)
        /\ RLt[RZero, y_lim] /\ RLt[RZero, y_space] =>
             rows = RCeil[RDiv[y_lim, y_space]]
                    + (IF Multiple(y_lim, y_space) THEN 2 ELSE 1)

\* a width that is a multiple of the spacing beside a height that is not
C4_Witness ==
    /\ SizedAt
    /\ x_lim = RInt(4) /\ x_space = RInt(2) /\ cols = 4
    /\ y_lim = RInt(4) /\ y_space = Rat[3, 2] /\ rows = 4

(***************************************************************************)
(* C5: the margin is exactly 2 beyond the integer quotient.  For           *)
(* W, H >= 0 and sx, sy > 0: cols = q + 2 for the integer q with           *)
(* q * sx <= W < (q + 1) * sx, rows likewise, and exactly cols * rows      *)
(* points are generated and emitted.                                       *)
(***************************************************************************)
C5_MarginTwo ==
    ProperLattice =>
        /\ SizedAt =>
             /\ cols >= 2 /\ rows >= 2
             /\ RLe[RMul[RInt(cols - 2), x_space], x_lim]
             /\ RLt[x_lim, RMul[RInt(cols - 1), x_space]]
             /\ RLe[RMul[RInt(rows - 2), y_space], y_lim]
             /\ RLt[y_lim, RMul[RInt(rows - 1), y_space]]
        /\ PointsAt => Len(raw_points) = cols * rows
        /\ CenteredAt => Len(centered_points) = cols * rows

\* a lattice of 6 columns and 4 rows was emitted
C5_Witness ==
    /\ CenteredAt
    /\ ProperLattice
    /\ cols = 6 /\ rows = 4
    /\ Len(centered_points) = 24

(***************************************************************************)
(* C6: a spacing larger than the bounding size still gives the minimum     *)
(* grid.  If sx > W >= 0 there are exactly 2 columns, if sy > H >= 0       *)
(* exactly 2 rows, and on a lattice with W, H >= 0 and sx, sy > 0 neither  *)
(* count is below 2 and at least 4 points are generated.                   *)
(***************************************************************************)
C6_MinimumGrid ==
    SizedAt =>
        /\ RLe[RZero, x_lim] /\ RLt[x_lim, x_space] => cols = 2
        /\ RLe[RZero, y_lim] /\ RLt[y_lim, y_space] => rows = 2
        /\ ProperLattice /\ (RLt[x_lim, x_space] \/ RLt[y_lim, y_space]) =>
             /\ cols >= 2 /\ rows >= 2
             /\ PointsAt => Len(raw_points) >= 4

\* both spacings exceed the size; the four points were emitted
C6_Witness ==
    /\ CenteredAt
    /\ RLe[RZero, x_lim] /\ RLt[x_lim, x_space]
    /\ RLe[RZero, y_lim] /\ RLt[y_lim, y_space]
    /\ Len(centered_points) = 4

(***************************************************************************)
(* C7 as stated: a call whose lattice has no point (cols <= 0 or           *)
(* rows <= 0) fails with an explicit, documented error and does not        *)
(* divide by zero when it computes the centroid.                           *)
(***************************************************************************)
C7_EmptyLatticeFailsExplicitly ==
    PointsAt /\ (cols <= 0 \/ rows <= 0) =>
        /\ pc \in { "center", "raised" }
        /\ pc = "raised" => error # "ZeroDivisionError"

(***************************************************************************)
(* C8: boolean duality.  The frame, the points and the motif of a call do  *)
(* not depend on invert; the result of the call and the result the same    *)
(* call gives with invert negated are disjoint, and their union is the     *)
(* clip frame.                                                             *)
(***************************************************************************)
C8_Duality ==
    TiledAt =>
        /\ result \cap Combine(cut_frame, placed, ~ args.invert) = {}
        /\ result \cup Combine(cut_frame, placed, ~ args.invert) = cut_frame

\* a call on which neither of the two results is empty
C8_Witness ==
    /\ TiledAt
    /\ args.invert
    /\ result # {}
    /\ result # cut_frame
    /\ cut_frame \ result = placed \cap cut_frame

(***************************************************************************)
(* C9: for every key and both values of invert, the solid the tiling step  *)
(* returns has no material outside the W x H frame about the origin, and   *)
(* neither has the solid the builder returns when rotation and translation *)
(* are zero, although motifs are placed beyond the frame.                  *)
(***************************************************************************)
InsideFrame(solid) ==
    \A c \in solid : /\ RLe[RInt(2 * Abs(c[1])), x_lim]
                     /\ RLe[RInt(2 * Abs(c[2])), y_lim]

C9_NothingOutsideFrame ==
    /\ TiledAt => InsideFrame(result)
    /\ pc = "done" /\ args.entry = "generate_pattern"
       /\ args.rotation = 0 /\ args.translation = << 0, 0 >> =>
           InsideFrame(returned)

\* the dispatch example: "square", not inverted, not turned, not moved,
\* with motif material beyond the frame that the result does not have
C9_Witness ==
    /\ pc = "done"
    /\ args.entry = "generate_pattern"
    /\ args.type = "square"
    /\ ~ args.invert
    /\ args.rotation = 0
    /\ args.translation = << 0, 0 >>
    /\ returned # {}
    /\ ~ InsideFrame(placed)

(***************************************************************************)
(* C10: the vertex list of star has 11 entries: 10 vertices and a closing  *)
(* point equal to the first; vertices of even index lie at the outer       *)
(* radius (the radius argument), vertices of odd index at 0.4 times the    *)
(* outer radius, which is 2 for radius 5.                                  *)
(***************************************************************************)
C10_StarVertices ==
    builder = "star" =>
        /\ Len(points) = 11
        /\ points[11] = points[1]
        /\ \A i \in 0 .. 9 :
             /\ points[i + 1].angle = 36 * i
             /\ i % 2 = 0 => points[i + 1].r = args.radius
             /\ i % 2 = 1 =>
                  /\ RMul[RInt(5), points[i + 1].r] = RMul[RInt(2), args.radius]
                  /\ args.radius = RInt(5) => points[i + 1].r = RInt(2)

\* the star of radius 5
C10_Witness ==
    /\ builder = "star"
    /\ pc = "done"
    /\ args.radius = RInt(5)
    /\ points[2].r = RInt(2)

(***************************************************************************)
(* C11: before centering, the point of the zero-based grid index           *)
(* (col, row) is (col * sx, row * sy), except that its y coordinate is     *)
(* row * sy + sy / 2 exactly when col is odd and odd_row_shift is true.    *)
(* The star builder passes odd_row_shift false, so none of its points is   *)
(* shifted; the points of even columns are never shifted.                  *)
(***************************************************************************)
C11_PointFormula ==
    /\ PointsAt /\ cols > 0 /\ rows > 0 =>
         \A col \in 0 .. cols - 1, row \in 0 .. rows - 1 :
            \E p \in { raw_points[col * rows + row + 1] } :
               /\ p[1] = RMul[RInt(col), x_space]
               /\ col % 2 = 1 /\ odd_row_shift =>
                    p[2] = RAdd[RMul[RInt(row), y_space],
                                RDiv[y_space, RInt(2)]]
               /\ col % 2 = 0 \/ ~ odd_row_shift =>
                    p[2] = RMul[RInt(row), y_space]
    /\ builder = "star" /\ pc # "raised" => ~ odd_row_shift
    /\ builder \in Keys \ { "star" } /\ pc # "raised" => odd_row_shift

\* a shifted lattice: the first point of column 1 lies half a spacing
\* above the first point of column 0, that of column 2 does not
C11_Witness ==
    /\ PointsAt
    /\ odd_row_shift
    /\ cols >= 3 /\ rows >= 2
    /\ raw_points[rows + 1][2] = RDiv[y_space, RInt(2)]
    /\ raw_points[2 * rows + 1][2] = RZero
    /\ raw_points[2][2] = y_space

\* create_pattern was entered on behalf of a builder
PassedOn ==
    /\ builder \in Keys
    /\ \/ pc \in { "create_pattern", "points", "center", "frame", "combine",
                   "tail", "done" }
       \/ pc = "raised" /\ line \in { 35, 36, 48, 54 }

(***************************************************************************)
(* C12 as stated: each of the six builders, called with radius > 0 and     *)
(* distance > 0, passes a strictly positive column spacing and a strictly  *)
(* positive row spacing to create_pattern.                                 *)
(***************************************************************************)
C12_SpacingPositive ==
    /\ PassedOn
    /\ RLt[RZero, args.radius]
    /\ RLt[RZero, args.distance]
    => RLt[RZero, x_space] /\ RLt[RZero, y_space]

\* the clip frame and the placed motifs exist (lines 52-61 ran)
FramedAt == pc \in { "combine", "tail", "done" }

(***************************************************************************)
(* C13: the clip frame is a box of in-plane size W x H (W, H > 0) and      *)
(* through-plane size 2 * depth centered at the origin, so it spans        *)
(* [-depth, +depth] through the plane; for every builder the through-plane *)
(* extent of the motif and of each placed copy lies within                 *)
(* [-depth, +depth].                                                       *)
(***************************************************************************)
C13_FrameStraddlesMotif ==
    FramedAt =>
        /\ RLt[RZero, x_lim] /\ RLt[RZero, y_lim] =>
             cut_frame = { c \in Universe :
                             /\ RLe[RInt(2 * Abs(c[1])), x_lim]
                             /\ RLe[RInt(2 * Abs(c[2])), y_lim] }
        /\ frame_z = << RNeg[args.depth], args.depth >>
        /\ RSub[frame_z[2], frame_z[1]] = RMul[RInt(2), args.depth]
        /\ builder \in Keys =>
             /\ RLe[frame_z[1], object_z[1]] /\ RLe[object_z[2], frame_z[2]]
             /\ RLe[frame_z[1], placed_z[1]] /\ RLe[placed_z[2], frame_z[2]]
             /\ RLt[placed_z[1], placed_z[2]]

\* the square motif of depth 1/2: a centered box lifted by half its height
C13_Witness ==
    /\ FramedAt
    /\ builder = "square"
    /\ args.depth = Rat[1, 2]
    /\ placed_z = << RZero, Rat[1, 2] >>
    /\ frame_z = << Rat[-1, 2], Rat[1, 2] >>
    /\ placed # {}

\* the validation block has run (lines 99-118)
ValidatedAt == stage \in { "solids", "pattern", "apply", "export", "exit",
                        "failed" }

(***************************************************************************)
(* C14 as stated: after the validation block of pivar_box, for every       *)
(* configuration, box_height >= mount_count * 32 + box_wall_thickness,     *)
(* mount_thickness >= 0.8, box_wall_thickness >= 0.8 and                   *)
(* box_width >= 2 * min_w hold of the effective values.                    *)
(***************************************************************************)
C14_Validated ==
    ValidatedAt =>
        /\ RLe[MinHeight(mount_count, box_wall_thickness), box_height]
        /\ RLe[Rat[4, 5], mount_thickness]
        /\ RLe[Rat[4, 5], box_wall_thickness]
        /\ RLe[RMul[RInt(2), min_w], box_width]

\* the script is past the pattern application (lines 272-284)
AppliedAt == stage \in { "export", "exit", "failed" }

(***************************************************************************)
(* C15 as stated: with an empty or null pattern, pivar_box logs            *)
(* "No pattern", does not call generate_pattern, raises nothing, leaves    *)
(* the box without a pattern cut from or added to it and exports the       *)
(* mount, the box and the lid, for both values of p_engraved.              *)
(***************************************************************************)
C15_NoPatternExports ==
    ~ Truthy(pattern) =>
        /\ stage # "failed"
        /\ failure = NoFailure
        /\ AppliedAt => logged = "No pattern" /\ u = "unbound" /\ box = "plain"
        /\ stage = "exit" => exported = { "mount", "box", "lid" }

====
